---------------------------- MODULE Spec2Model ----------------------------
(***************************************************************************)
(* VEIL: a private parimutuel prediction market.                           *)
(*                                                                         *)
(* One market of programs/veil/src/lib.rs, its vault, the bet records of   *)
(* its bettors, and the confidential computations queued for it.  An       *)
(* encrypted value is modelled by the plaintext the MPC cluster sees when  *)
(* it decrypts it: nothing in the program ever reads it, the program only  *)
(* stores it and hands it back to the cluster.                             *)
(***************************************************************************)
EXTENDS Integers, Sequences, FiniteSets, TLC

(***************************************************************************)
(* Program constants                                                       *)
(***************************************************************************)
MIN_BET_LAMPORTS == 1000000
MAX_QUESTION_LEN == 200
MAX_FEE_BPS == 1000
BPS_DENOMINATOR == 10000

\* MarketVault::LEN, the size of the vault account in bytes.
MarketVaultLEN == 8 + 1 + 32 + 8 + 8

\* The lamports the ledger requires an account of MarketVaultLEN bytes to
\* hold to be rent exempt ((128 + size) bytes at 3480 lamports per byte-year,
\* two years).  The `init` constraint of CreateMarket.vault funds the vault
\* with exactly this reserve, so the vault's balance is never only the bets.
VaultRent == (128 + MarketVaultLEN) * 3480 * 2

(***************************************************************************)
(* Bounds of the model                                                     *)
(***************************************************************************)
MaxTime == 1        \* the clock runs over 0..MaxTime

Users == {"u1", "u2"}
NoUser == "nobody"
\* Who creates the market: the users are interchangeable, so one suffices.
Creators == {"u1"}

FeeChoices == {0, 500, MAX_FEE_BPS + 1}
QuestionLens == {MAX_QUESTION_LEN, MAX_QUESTION_LEN + 1}
OracleBytes == {0}
\* The computation offsets the authority uses for init_market_state.
InitOffsets == {1}
DeadlineChoices == 0..MaxTime
StakeChoices == {MIN_BET_LAMPORTS - 1, MIN_BET_LAMPORTS, VaultRent}
\* The amount inside the ciphertext is the bettor's choice: the stake itself,
\* or something else.
EncAmountChoices(stake) == {stake, MIN_BET_LAMPORTS}

(***************************************************************************)
(* Arithmetic.  The program multiplies in u128 and divides there, which is *)
(* exact for u64 operands; MulDivQR computes the same quotient and         *)
(* remainder of a * b by c without forming the product.                    *)
(***************************************************************************)
MulDivStep(h, a, bit, c) ==
    LET q2 == 2 * h[1] + ((2 * h[2]) \div c)
        r2 == (2 * h[2]) % c
    IN  IF bit = 0 THEN <<q2, r2>>
        ELSE <<q2 + (a \div c) + ((r2 + (a % c)) \div c), (r2 + (a % c)) % c>>

RECURSIVE MulDivQR(_, _, _)
MulDivQR(a, b, c) ==
    IF b = 0 THEN <<0, 0>>
    ELSE MulDivStep(MulDivQR(a, b \div 2, c), a, b % 2, c)

\* floor(a * b / c), c > 0
MulDiv(a, b, c) == MulDivQR(a, b, c)[1]

SaturatingSub(a, b) == IF a >= b THEN a - b ELSE 0

(***************************************************************************)
(* Unsigned 64 and 128 bit integers as little-endian sequences of 16-bit   *)
(* limbs (4 and 8 of them), so that the fee of claim_payout is computed at *)
(* the width the program computes it.                                      *)
(***************************************************************************)
LimbBase == 65536
LimbsU64 == 4
LimbsU128 == 8

Zeros(n) == [i \in 1..n |-> 0]
IsZero(x) == \A i \in 1..Len(x) : x[i] = 0

\* `x as u128` of a u64.
AsU128(x) == x \o Zeros(LimbsU128 - Len(x))
\* `x as u64` of a u128: the low 64 bits.
AsU64(x) == SubSeq(x, 1, LimbsU64)
FitsU64(x) == IsZero(SubSeq(x, LimbsU64 + 1, Len(x)))

\* x * m for a small m, wrapping at the width of x.
RECURSIVE MulLimbs(_, _, _)
MulLimbs(x, m, carry) ==
    IF x = <<>> THEN <<>>
    ELSE LET p == Head(x) * m + carry
         IN <<p % LimbBase>> \o MulLimbs(Tail(x), m, p \div LimbBase)

\* <<x \div d, x % d>> for a small d > 0.
RECURSIVE DivModLimbs(_, _)
DivModLimbs(x, d) ==
    IF x = <<>> THEN <<(<<>>), 0>>
    ELSE LET hi == DivModLimbs(Tail(x), d)
             cur == hi[2] * LimbBase + Head(x)
         IN <<(<<cur \div d>> \o hi[1]), cur % d>>

DivLimbs(x, d) == DivModLimbs(x, d)[1]

RECURSIVE LeLimbs(_, _)
LeLimbs(x, y) ==
    IF x = <<>> THEN TRUE
    ELSE IF Tail(x) = Tail(y) THEN Head(x) <= Head(y)
    ELSE LeLimbs(Tail(x), Tail(y))

\* Conversions for the amounts of the model, all below 2^31.
ToU64(n) == <<n % LimbBase, n \div LimbBase, 0, 0>>
FromU64(x) == x[1] + LimbBase * x[2]

(***************************************************************************)
(* State                                                                   *)
(***************************************************************************)
VARIABLES
    now,            \* Clock::get()?.unix_timestamp
    market,         \* the Market account
    vault,          \* the MarketVault account
    vault_lamports, \* the ledger balance of the vault account
    bets,           \* the BetRecord account of each bettor, or NoBet
    comps,          \* computations queued and not yet called back
    offsets_used,   \* the computation offsets init_market_state has used
    claim_log,      \* per bettor: claim_payout and claim_refund calls that
                    \* succeeded, and the arguments of the payout
    fee_calc        \* the fee computation of claim_payout, at full width

vars == <<now, market, vault, vault_lamports, bets, comps, offsets_used,
         claim_log, fee_calc>>

None == <<>>
Some(x) == <<x>>

ZeroState == [yes_pool |-> 0, no_pool |-> 0, bet_count |-> 0]

NoMarket ==
    [created |-> FALSE, authority |-> NoUser, resolution_time |-> 0, fee_bps |-> 0,
     oracle_type |-> "Manual", status |-> "Open", outcome |-> None,
     encrypted_state |-> ZeroState, state_nonce |-> 0, mpc_initialized |-> FALSE,
     revealed_yes_pool |-> 0, revealed_no_pool |-> 0, revealed_total_pool |-> 0,
     bet_count |-> 0]

NoVault == [total_deposits |-> 0, total_withdrawals |-> 0]

NoBet == [exists |-> FALSE]

NoClaims == [payouts |-> 0, refunds |-> 0, claimed_outcome |-> None,
             claimed_amount |-> None]

NoFeeCalc == [revealed_total_pool |-> Zeros(LimbsU64), fee_bps |-> 0, fee |-> None]

Init ==
    /\ fee_calc = NoFeeCalc
    /\ now = 0
    /\ market = NoMarket
    /\ vault = NoVault
    /\ vault_lamports = 0
    /\ bets = [u \in Users |-> NoBet]
    /\ comps = {}
    /\ offsets_used = {}
    /\ claim_log = [u \in Users |-> NoClaims]

\* impl From<u8> for OracleType
OracleTypeFrom(value) ==
    CASE value = 0 -> "Manual"
      [] value = 1 -> "Switchboard"
      [] value = 2 -> "Jury"
      [] OTHER -> "Manual"

(***************************************************************************)
(* The clock                                                               *)
(***************************************************************************)
Tick ==
    /\ now < MaxTime
    /\ now' = now + 1
    /\ UNCHANGED <<market, vault, vault_lamports, bets, comps, offsets_used, claim_log, fee_calc>>

(***************************************************************************)
(* create_market                                                           *)
(***************************************************************************)
\* The cap taken for 100% instead of 10%.
fee_bps_valid_whole(fee_bps) == fee_bps <= BPS_DENOMINATOR

\* require!(fee_bps <= 1000, ...): at most 10%.
fee_bps_valid(fee_bps) == fee_bps <= MAX_FEE_BPS

\* create_market without the requirement on resolution_time.
create_market_result_any_deadline(question_len, resolution_time, fee_bps) ==
    IF market.created THEN "AccountAlreadyInUse"
    ELSE IF ~(question_len <= MAX_QUESTION_LEN) THEN "InvalidInput"
    ELSE IF ~fee_bps_valid(fee_bps) THEN "InvalidInput"
    ELSE "Ok"

create_market_result(question_len, resolution_time, fee_bps) ==
    IF market.created THEN "AccountAlreadyInUse"
    ELSE IF ~(question_len <= MAX_QUESTION_LEN) THEN "InvalidInput"
    ELSE IF ~(resolution_time > now) THEN "InvalidInput"
    ELSE IF ~fee_bps_valid(fee_bps) THEN "InvalidInput"
    ELSE "Ok"

create_market(authority, question_len, resolution_time, oracle_type, fee_bps) ==
    /\ create_market_result(question_len, resolution_time, fee_bps) = "Ok"
    /\ market' = [created |-> TRUE, authority |-> authority,
                  resolution_time |-> resolution_time, fee_bps |-> fee_bps,
                  oracle_type |-> OracleTypeFrom(oracle_type),
                  status |-> "Open", outcome |-> None,
                  encrypted_state |-> ZeroState, state_nonce |-> 0,
                  mpc_initialized |-> FALSE,
                  revealed_yes_pool |-> 0, revealed_no_pool |-> 0,
                  revealed_total_pool |-> 0, bet_count |-> 0]
    /\ vault' = [total_deposits |-> 0, total_withdrawals |-> 0]
    /\ vault_lamports' = VaultRent
    /\ UNCHANGED <<now, bets, comps, offsets_used, claim_log, fee_calc>>

CreateMarket ==
    \E authority \in Creators, question_len \in QuestionLens,
       resolution_time \in DeadlineChoices, oracle_type \in OracleBytes,
       fee_bps \in FeeChoices :
        create_market(authority, question_len, resolution_time, oracle_type, fee_bps)

(***************************************************************************)
(* The circuits of encrypted-ixs/src/lib.rs, on the plaintext they see     *)
(***************************************************************************)
circuit_init_market_state == [yes_pool |-> 0, no_pool |-> 0, bet_count |-> 0]

circuit_place_bet(bet, state) ==
    [yes_pool |-> IF bet.outcome THEN state.yes_pool + bet.amount ELSE state.yes_pool,
     no_pool |-> IF bet.outcome THEN state.no_pool ELSE state.no_pool + bet.amount,
     bet_count |-> state.bet_count + 1]

\* The buckets returned yes first, whatever the outcome.
circuit_calculate_payout_pools_yes_first(state, outcome) ==
    [winning_pool |-> state.yes_pool,
     losing_pool |-> state.no_pool,
     total_pool |-> state.yes_pool + state.no_pool,
     outcome |-> outcome]

circuit_calculate_payout_pools(state, outcome) ==
    [winning_pool |-> IF outcome THEN state.yes_pool ELSE state.no_pool,
     losing_pool |-> IF outcome THEN state.no_pool ELSE state.yes_pool,
     total_pool |-> state.yes_pool + state.no_pool,
     outcome |-> outcome]

(***************************************************************************)
(* queue_computation: the request carries the arguments as they are when   *)
(* it is queued (the market's state_nonce and the ciphertexts it names).   *)
(* The computation account is created per computation_offset, so an offset *)
(* is used once: the callers of the model draw the offset of an init from  *)
(* InitOffsets and use one offset per bettor for a bet and one for the     *)
(* resolution.  The cluster answers each request once, with a nonce of its *)
(* own for the new ciphertexts.                                            *)
(***************************************************************************)
NoBetArg == [outcome |-> FALSE, amount |-> 0]

UserIndex(u) == IF u = "u1" THEN 1 ELSE 2

PlaceBetOffset(bettor) == 100 + UserIndex(bettor)
ResolveOffset == 200

\* .account(market_key, ENCRYPTED_STATE_OFFSET, ENCRYPTED_STATE_SIZE): the
\* aggregate is read, as an argument, when the request is queued.
AccountArgument == market.encrypted_state

Computation(computation_offset, kind, bettor, bet, outcome) ==
    [id |-> computation_offset, kind |-> kind, bettor |-> bettor,
     state |-> AccountArgument, state_nonce |-> market.state_nonce,
     bet |-> bet, outcome |-> outcome]

queue_computation(c) == comps' = comps \cup {c}

OutputNonce(c) == c.id

(***************************************************************************)
(* init_market_state and its callback                                      *)
(***************************************************************************)
\* InitMarketState without the constraint on mpc_initialized.
init_market_state_result_unflagged(authority) ==
    IF ~market.created THEN "AccountNotInitialized"
    ELSE IF market.authority # authority THEN "Unauthorized"
    ELSE "Ok"

init_market_state_result(authority) ==
    IF ~market.created THEN "AccountNotInitialized"
    ELSE IF market.mpc_initialized THEN "MpcAlreadyInitialized"
    ELSE IF market.authority # authority THEN "Unauthorized"
    ELSE "Ok"

init_market_state(authority, computation_offset) ==
    /\ init_market_state_result(authority) = "Ok"
    /\ computation_offset \notin offsets_used
    /\ offsets_used' = offsets_used \cup {computation_offset}
    /\ queue_computation(Computation(computation_offset, "init_market_state",
                                     NoUser, NoBetArg, FALSE))
    /\ UNCHANGED <<now, market, vault, vault_lamports, bets, claim_log, fee_calc>>

\* verify_output failed: the callback returns MpcComputationFailed and the
\* ledger rolls the whole transaction back, the cluster's delivery included.
callback_rejected(c) == UNCHANGED vars

\* An output taken without verification.
verify_output_unchecked(verified) == "Ok"

\* output.verify_output(&cluster_account, &computation_account): Ok(..) or
\* Err(_) => return Err(VeilError::MpcComputationFailed.into()).
verify_output(verified) == IF verified THEN "Ok" ELSE "MpcComputationFailed"

init_market_state_callback(c, verified) ==
    /\ c.kind = "init_market_state"
    /\ IF verify_output(verified) = "Ok"
       THEN /\ market' = [market EXCEPT !.encrypted_state = circuit_init_market_state,
                                        !.state_nonce = OutputNonce(c),
                                        !.mpc_initialized = TRUE]
            /\ comps' = comps \ {c}
            /\ UNCHANGED <<now, vault, vault_lamports, bets, offsets_used, claim_log, fee_calc>>
       ELSE callback_rejected(c)

(***************************************************************************)
(* place_bet and its callback                                              *)
(***************************************************************************)
\* MAX_BET_LAMPORTS = 1_000_000_000_000 = 232 * 2^32 + 54437 * 2^16 + 4096, a u64.
MAX_BET_LAMPORTS == <<4096, 54437, 232, 0>>

\* The validation of the amount without the upper bound.
bet_amount_result_unbounded(bet_lamports) ==
    IF ~LeLimbs(ToU64(MIN_BET_LAMPORTS), bet_lamports) THEN "BetAmountTooLow"
    ELSE "Ok"

\* "Validate bet amount", on the u64 bet_lamports.
bet_amount_result(bet_lamports) ==
    IF ~LeLimbs(ToU64(MIN_BET_LAMPORTS), bet_lamports) THEN "BetAmountTooLow"
    ELSE IF ~LeLimbs(bet_lamports, MAX_BET_LAMPORTS) THEN "BetAmountTooHigh"
    ELSE "Ok"

\* PlaceBet with the bet record taken as it is when it already exists.
place_bet_result_u64_init_if_needed(bettor, bet_lamports) ==
    IF ~market.created THEN "AccountNotInitialized"
    ELSE IF market.status # "Open" THEN "MarketNotOpen"
    ELSE IF ~market.mpc_initialized THEN "MpcNotInitialized"
    ELSE IF ~(now < market.resolution_time) THEN "BettingPeriodEnded"
    ELSE bet_amount_result(bet_lamports)

\* The PlaceBet accounts and the requirements of place_bet, on a u64 amount.
place_bet_result_u64(bettor, bet_lamports) ==
    IF ~market.created THEN "AccountNotInitialized"
    ELSE IF bets[bettor].exists THEN "AccountAlreadyInUse"
    ELSE IF market.status # "Open" THEN "MarketNotOpen"
    ELSE IF ~market.mpc_initialized THEN "MpcNotInitialized"
    ELSE IF ~(now < market.resolution_time) THEN "BettingPeriodEnded"
    ELSE bet_amount_result(bet_lamports)

place_bet_result(bettor, bet_lamports) == place_bet_result_u64(bettor, ToU64(bet_lamports))

\* place_bet whose transfer and record outlive a rejected amount.
place_bet_amount_unvalidated(bettor, encrypted_outcome, encrypted_amount, bet_lamports) ==
    /\ place_bet_result(bettor, bet_lamports) \in {"Ok", "BetAmountTooLow"}
    /\ vault_lamports' = vault_lamports + bet_lamports
    /\ vault' = [vault EXCEPT !.total_deposits = @ + bet_lamports]
    /\ bets' = [bets EXCEPT ![bettor] =
                   [exists |-> TRUE,
                    bet_index |-> market.bet_count,
                    encrypted_bet |-> [outcome |-> encrypted_outcome,
                                       amount |-> encrypted_amount],
                    bet_lamports |-> bet_lamports,
                    status |-> "Pending",
                    confirmed_at_set |-> FALSE,
                    claimed |-> FALSE,
                    payout_amount |-> None]]
    /\ queue_computation(Computation(PlaceBetOffset(bettor), "place_bet", bettor,
                             [outcome |-> encrypted_outcome, amount |-> encrypted_amount],
                             FALSE))
    /\ UNCHANGED <<now, market, offsets_used, claim_log, fee_calc>>

place_bet(bettor, encrypted_outcome, encrypted_amount, bet_lamports) ==
    /\ place_bet_result(bettor, bet_lamports) = "Ok"
    /\ vault_lamports' = vault_lamports + bet_lamports
    /\ vault' = [vault EXCEPT !.total_deposits = @ + bet_lamports]
    /\ bets' = [bets EXCEPT ![bettor] =
                   [exists |-> TRUE,
                    bet_index |-> market.bet_count,
                    encrypted_bet |-> [outcome |-> encrypted_outcome,
                                       amount |-> encrypted_amount],
                    bet_lamports |-> bet_lamports,
                    status |-> "Pending",
                    confirmed_at_set |-> FALSE,
                    claimed |-> FALSE,
                    payout_amount |-> None]]
    /\ queue_computation(Computation(PlaceBetOffset(bettor), "place_bet", bettor,
                             [outcome |-> encrypted_outcome, amount |-> encrypted_amount],
                             FALSE))
    /\ UNCHANGED <<now, market, offsets_used, claim_log, fee_calc>>

place_bet_callback(c, verified) ==
    /\ c.kind = "place_bet"
    /\ IF verify_output(verified) = "Ok"
       THEN /\ market' = [market EXCEPT
                             !.encrypted_state = circuit_place_bet(c.bet, c.state),
                             !.state_nonce = OutputNonce(c),
                             !.bet_count = @ + 1]
            /\ bets' = [bets EXCEPT ![c.bettor].status = "Confirmed",
                                    ![c.bettor].confirmed_at_set = TRUE]
            /\ comps' = comps \ {c}
            /\ UNCHANGED <<now, vault, vault_lamports, offsets_used, claim_log, fee_calc>>
       ELSE callback_rejected(c)

(***************************************************************************)
(* close_market                                                            *)
(***************************************************************************)
\* close_market open to the creator only.
close_market_result_authority_only(signer) ==
    IF ~market.created THEN "AccountNotInitialized"
    ELSE IF market.status # "Open" THEN "MarketNotOpen"
    ELSE IF ~(market.authority = signer) THEN "Unauthorized"
    ELSE "Ok"

close_market_result(signer) ==
    IF ~market.created THEN "AccountNotInitialized"
    ELSE IF market.status # "Open" THEN "MarketNotOpen"
    ELSE IF ~(market.authority = signer \/ now >= market.resolution_time) THEN "Unauthorized"
    ELSE "Ok"

close_market(signer) ==
    /\ close_market_result(signer) = "Ok"
    /\ market' = [market EXCEPT !.status = "Closed"]
    /\ UNCHANGED <<now, vault, vault_lamports, bets, comps, offsets_used, claim_log, fee_calc>>

(***************************************************************************)
(* resolve_market and its callback                                         *)
(***************************************************************************)
resolver_authorized(oracle_type, authority, resolver) ==
    CASE oracle_type = "Manual" -> authority = resolver
      [] oracle_type = "Switchboard" -> authority = resolver
      [] oracle_type = "Jury" -> authority = resolver

\* resolve_market without the can_resolve requirement.
resolve_market_result_any_status(resolver) ==
    IF ~market.created THEN "AccountNotInitialized"
    ELSE IF ~market.mpc_initialized THEN "MpcNotInitialized"
    ELSE IF ~resolver_authorized(market.oracle_type, market.authority, resolver)
         THEN "Unauthorized"
    ELSE "Ok"

resolve_market_result(resolver) ==
    IF ~market.created THEN "AccountNotInitialized"
    ELSE IF market.status # "Closed" THEN "MarketNotClosed"
    ELSE IF ~market.mpc_initialized THEN "MpcNotInitialized"
    ELSE IF ~resolver_authorized(market.oracle_type, market.authority, resolver)
         THEN "Unauthorized"
    ELSE "Ok"

resolve_market(resolver, outcome) ==
    /\ resolve_market_result(resolver) = "Ok"
    /\ market' = [market EXCEPT !.status = "Resolving"]
    /\ queue_computation(Computation(ResolveOffset, "calculate_payout_pools",
                                     NoUser, NoBetArg, outcome))
    /\ UNCHANGED <<now, vault, vault_lamports, bets, offsets_used, claim_log, fee_calc>>

\* The callback applied to a Resolving market only.
calculate_payout_pools_callback_resolving_only(c, verified) ==
    /\ c.kind = "calculate_payout_pools"
    /\ IF verify_output(verified) = "Ok" /\ market.status = "Resolving"
       THEN LET payout == circuit_calculate_payout_pools(c.state, c.outcome) IN
            /\ market' = [market EXCEPT
                   !.outcome = Some(payout.outcome),
                   !.status = "Resolved",
                   !.revealed_yes_pool =
                       IF payout.outcome THEN payout.winning_pool ELSE payout.losing_pool,
                   !.revealed_no_pool =
                       IF payout.outcome THEN payout.losing_pool ELSE payout.winning_pool,
                   !.revealed_total_pool = payout.total_pool]
            /\ comps' = comps \ {c}
            /\ UNCHANGED <<now, vault, vault_lamports, bets, offsets_used, claim_log, fee_calc>>
       ELSE callback_rejected(c)

calculate_payout_pools_callback(c, verified) ==
    /\ c.kind = "calculate_payout_pools"
    /\ IF verify_output(verified) = "Ok"
       THEN LET payout == circuit_calculate_payout_pools(c.state, c.outcome) IN
            /\ market' = [market EXCEPT
                   !.outcome = Some(payout.outcome),
                   !.status = "Resolved",
                   !.revealed_yes_pool =
                       IF payout.outcome THEN payout.winning_pool ELSE payout.losing_pool,
                   !.revealed_no_pool =
                       IF payout.outcome THEN payout.losing_pool ELSE payout.winning_pool,
                   !.revealed_total_pool = payout.total_pool]
            /\ comps' = comps \ {c}
            /\ UNCHANGED <<now, vault, vault_lamports, bets, offsets_used, claim_log, fee_calc>>
       ELSE callback_rejected(c)

(***************************************************************************)
(* cancel_market                                                           *)
(***************************************************************************)
\* cancel_market without the rejection of a Resolved market.
cancel_market_result_resolved_unchecked(authority) ==
    IF ~market.created THEN "AccountNotInitialized"
    ELSE IF market.authority # authority THEN "Unauthorized"
    ELSE IF market.status = "Cancelled" THEN "MarketCancelled"
    ELSE "Ok"

cancel_market_result(authority) ==
    IF ~market.created THEN "AccountNotInitialized"
    ELSE IF market.authority # authority THEN "Unauthorized"
    ELSE IF market.status = "Resolved" THEN "MarketAlreadyResolved"
    ELSE IF market.status = "Cancelled" THEN "MarketCancelled"
    ELSE "Ok"

cancel_market(authority) ==
    /\ cancel_market_result(authority) = "Ok"
    /\ market' = [market EXCEPT !.status = "Cancelled"]
    /\ UNCHANGED <<now, vault, vault_lamports, bets, comps, offsets_used, claim_log, fee_calc>>

(***************************************************************************)
(* The ledger's rule for `**vault.lamports -= amount`: the balance cannot  *)
(* go below zero, and an account that was rent exempt must stay so unless  *)
(* it is emptied.                                                          *)
(***************************************************************************)
LedgerDebitOk(balance, amount) ==
    /\ amount <= balance
    /\ (balance - amount = 0 \/ balance - amount >= VaultRent)

(***************************************************************************)
(* claim_payout                                                            *)
(***************************************************************************)
\* let fee = (revealed_total_pool as u128 * fee_bps as u128 / 10000) as u64
\* (revealed_total_pool as u128 * fee_bps as u128 / 10000), before the cast.
FeeU128(revealed_total_pool, fee_bps) ==
    DivLimbs(MulLimbs(AsU128(revealed_total_pool), fee_bps, 0), BPS_DENOMINATOR)

FeeU64(revealed_total_pool, fee_bps) == AsU64(FeeU128(revealed_total_pool, fee_bps))

Fee(revealed_total_pool, fee_bps) == FromU64(FeeU64(ToU64(revealed_total_pool), fee_bps))

\* The payout with the fee left in the pool.
PayoutAmount_fee_forgotten(claimed_outcome, claimed_amount) ==
    LET winning_outcome == market.outcome[1] IN
    IF claimed_outcome = winning_outcome
    THEN LET winning_pool == IF winning_outcome THEN market.revealed_yes_pool
                                                ELSE market.revealed_no_pool
         IN  IF winning_pool > 0
             THEN MulDiv(claimed_amount, market.revealed_total_pool, winning_pool)
             ELSE 0
    ELSE 0

PayoutAmount(claimed_outcome, claimed_amount) ==
    LET winning_outcome == market.outcome[1] IN
    IF claimed_outcome = winning_outcome
    THEN LET winning_pool == IF winning_outcome THEN market.revealed_yes_pool
                                                ELSE market.revealed_no_pool
             fee == Fee(market.revealed_total_pool, market.fee_bps)
             payout_pool == SaturatingSub(market.revealed_total_pool, fee)
         IN  IF winning_pool > 0
             THEN MulDiv(claimed_amount, payout_pool, winning_pool)
             ELSE 0
    ELSE 0

\* ClaimPayout without the constraint on bet_record.status.
claim_payout_result_any_status(bettor, claimed_outcome, claimed_amount) ==
    IF ~market.created THEN "AccountNotInitialized"
    ELSE IF market.status # "Resolved" THEN "MarketNotResolved"
    ELSE IF ~bets[bettor].exists THEN "AccountNotInitialized"
    ELSE IF bets[bettor].claimed THEN "BetAlreadyClaimed"
    ELSE IF market.outcome = None THEN "MarketNotResolved"
    ELSE IF claimed_amount # bets[bettor].bet_lamports THEN "InvalidBetClaim"
    ELSE IF PayoutAmount(claimed_outcome, claimed_amount) > 0
            /\ ~LedgerDebitOk(vault_lamports, PayoutAmount(claimed_outcome, claimed_amount))
         THEN "InsufficientFunds"
    ELSE "Ok"

claim_payout_result(bettor, claimed_outcome, claimed_amount) ==
    IF ~market.created THEN "AccountNotInitialized"
    ELSE IF market.status # "Resolved" THEN "MarketNotResolved"
    ELSE IF ~bets[bettor].exists THEN "AccountNotInitialized"
    ELSE IF bets[bettor].claimed THEN "BetAlreadyClaimed"
    ELSE IF bets[bettor].status # "Confirmed" THEN "BetNotConfirmed"
    ELSE IF market.outcome = None THEN "MarketNotResolved"
    ELSE IF claimed_amount # bets[bettor].bet_lamports THEN "InvalidBetClaim"
    ELSE IF PayoutAmount(claimed_outcome, claimed_amount) > 0
            /\ ~LedgerDebitOk(vault_lamports, PayoutAmount(claimed_outcome, claimed_amount))
         THEN "InsufficientFunds"
    ELSE "Ok"

\* claim_payout without "Mark as claimed".
claim_payout_unmarked(bettor, claimed_outcome, claimed_amount) ==
    /\ claim_payout_result(bettor, claimed_outcome, claimed_amount) = "Ok"
    /\ LET payout == PayoutAmount(claimed_outcome, claimed_amount) IN
        /\ vault_lamports' = vault_lamports - payout
        /\ vault' = IF payout > 0
                    THEN [vault EXCEPT !.total_withdrawals = @ + payout]
                    ELSE vault
        /\ claim_log' = [claim_log EXCEPT ![bettor] =
                            [payouts |-> @.payouts + 1, refunds |-> @.refunds,
                             claimed_outcome |-> Some(claimed_outcome),
                             claimed_amount |-> Some(claimed_amount)]]
    /\ UNCHANGED <<now, market, bets, comps, offsets_used, fee_calc>>

claim_payout(bettor, claimed_outcome, claimed_amount) ==
    /\ claim_payout_result(bettor, claimed_outcome, claimed_amount) = "Ok"
    /\ LET payout == PayoutAmount(claimed_outcome, claimed_amount) IN
        /\ vault_lamports' = vault_lamports - payout
        /\ vault' = IF payout > 0
                    THEN [vault EXCEPT !.total_withdrawals = @ + payout]
                    ELSE vault
        /\ bets' = [bets EXCEPT ![bettor].claimed = TRUE,
                                ![bettor].payout_amount = Some(payout),
                                ![bettor].status = "Claimed"]
        /\ claim_log' = [claim_log EXCEPT ![bettor] =
                            [payouts |-> @.payouts + 1, refunds |-> @.refunds,
                             claimed_outcome |-> Some(claimed_outcome),
                             claimed_amount |-> Some(claimed_amount)]]
    /\ UNCHANGED <<now, market, comps, offsets_used, fee_calc>>

(***************************************************************************)
(* claim_refund                                                            *)
(***************************************************************************)
\* ClaimRefund without the constraint on bet_record.claimed.
claim_refund_result_unclaimed_unchecked(bettor) ==
    IF ~market.created THEN "AccountNotInitialized"
    ELSE IF market.status # "Cancelled" THEN "MarketCancelled"
    ELSE IF ~bets[bettor].exists THEN "AccountNotInitialized"
    ELSE IF ~LedgerDebitOk(vault_lamports, bets[bettor].bet_lamports) THEN "InsufficientFunds"
    ELSE "Ok"

claim_refund_result(bettor) ==
    IF ~market.created THEN "AccountNotInitialized"
    ELSE IF market.status # "Cancelled" THEN "MarketCancelled"
    ELSE IF ~bets[bettor].exists THEN "AccountNotInitialized"
    ELSE IF bets[bettor].claimed THEN "BetAlreadyClaimed"
    ELSE IF ~LedgerDebitOk(vault_lamports, bets[bettor].bet_lamports) THEN "InsufficientFunds"
    ELSE "Ok"

\* claim_refund that takes the refund off total_deposits.
claim_refund_deposit_reversed(bettor) ==
    /\ claim_refund_result(bettor) = "Ok"
    /\ LET refund_amount == bets[bettor].bet_lamports IN
        /\ vault_lamports' = vault_lamports - refund_amount
        /\ vault' = [vault EXCEPT !.total_deposits = @ - refund_amount]
        /\ bets' = [bets EXCEPT ![bettor].claimed = TRUE,
                                ![bettor].payout_amount = Some(refund_amount),
                                ![bettor].status = "Refunded"]
        /\ claim_log' = [claim_log EXCEPT ![bettor].refunds = @ + 1]
    /\ UNCHANGED <<now, market, comps, offsets_used, fee_calc>>

\* claim_refund without the marking of the record.
claim_refund_unmarked(bettor) ==
    /\ claim_refund_result(bettor) = "Ok"
    /\ LET refund_amount == bets[bettor].bet_lamports IN
        /\ vault_lamports' = vault_lamports - refund_amount
        /\ vault' = [vault EXCEPT !.total_withdrawals = @ + refund_amount]
        /\ claim_log' = [claim_log EXCEPT ![bettor].refunds = @ + 1]
    /\ UNCHANGED <<now, market, bets, comps, offsets_used, fee_calc>>

claim_refund(bettor) ==
    /\ claim_refund_result(bettor) = "Ok"
    /\ LET refund_amount == bets[bettor].bet_lamports IN
        /\ vault_lamports' = vault_lamports - refund_amount
        /\ vault' = [vault EXCEPT !.total_withdrawals = @ + refund_amount]
        /\ bets' = [bets EXCEPT ![bettor].claimed = TRUE,
                                ![bettor].payout_amount = Some(refund_amount),
                                ![bettor].status = "Refunded"]
        /\ claim_log' = [claim_log EXCEPT ![bettor].refunds = @ + 1]
    /\ UNCHANGED <<now, market, comps, offsets_used, fee_calc>>

(***************************************************************************)
(* The next-state relation: any signer may call any entry point with any   *)
(* arguments; the cluster calls back any queued computation, with an       *)
(* output that verifies or one that does not.                              *)
(***************************************************************************)
InitMarketState ==
    \E authority \in Users, computation_offset \in InitOffsets :
        init_market_state(authority, computation_offset)

InitMarketStateCallback ==
    \E c \in comps, verified \in BOOLEAN : init_market_state_callback(c, verified)

PlaceBet ==
    \E bettor \in Users, encrypted_outcome \in BOOLEAN, bet_lamports \in StakeChoices :
        \E encrypted_amount \in EncAmountChoices(bet_lamports) :
            place_bet(bettor, encrypted_outcome, encrypted_amount, bet_lamports)

PlaceBetCallback ==
    \E c \in comps, verified \in BOOLEAN : place_bet_callback(c, verified)

CloseMarket == \E signer \in Users : close_market(signer)

ResolveMarket == \E resolver \in Users, outcome \in BOOLEAN : resolve_market(resolver, outcome)

CalculatePayoutPoolsCallback ==
    \E c \in comps, verified \in BOOLEAN : calculate_payout_pools_callback(c, verified)

CancelMarket == \E authority \in Users : cancel_market(authority)

ClaimAmountChoices(bettor) ==
    {MIN_BET_LAMPORTS} \cup (IF bets[bettor].exists THEN {bets[bettor].bet_lamports} ELSE {})

ClaimPayout ==
    \E bettor \in Users, claimed_outcome \in BOOLEAN :
        \E claimed_amount \in ClaimAmountChoices(bettor) :
            claim_payout(bettor, claimed_outcome, claimed_amount)

ClaimRefund == \E bettor \in Users : claim_refund(bettor)

Next ==
    \/ Tick
    \/ CreateMarket
    \/ InitMarketState
    \/ InitMarketStateCallback
    \/ PlaceBet
    \/ PlaceBetCallback
    \/ CloseMarket
    \/ ResolveMarket
    \/ CalculatePayoutPoolsCallback
    \/ CancelMarket
    \/ ClaimPayout
    \/ ClaimRefund

Spec == Init /\ [][Next]_vars

(***************************************************************************)
(* Fair delivery: the cluster eventually delivers, with an output that     *)
(* verifies, the callback of every computation that stays queued.          *)
(***************************************************************************)
DeliverInit == \E c \in comps : init_market_state_callback(c, TRUE)
DeliverBet(bettor) == \E c \in comps : c.bettor = bettor /\ place_bet_callback(c, TRUE)
DeliverPayoutPools == \E c \in comps : calculate_payout_pools_callback(c, TRUE)

FairDelivery ==
    /\ WF_vars(DeliverInit)
    /\ \A bettor \in Users : WF_vars(DeliverBet(bettor))
    /\ WF_vars(DeliverPayoutPools)

SpecFair == Init /\ [][Next]_vars /\ FairDelivery

(***************************************************************************)
(* The payout engine on resolved markets: the markets two bettors reach by *)
(* betting one after the other, each callback landing before the next      *)
(* request, then close_market, resolve_market and its callback.            *)
(***************************************************************************)
PayoutStakes == {MIN_BET_LAMPORTS, 2 * MIN_BET_LAMPORTS, VaultRent}
PayoutFees == {0, 333, 500, MAX_FEE_BPS}

ConfirmedBet(bet_index, outcome, bet_lamports) ==
    [exists |-> TRUE, bet_index |-> bet_index,
     encrypted_bet |-> [outcome |-> outcome, amount |-> bet_lamports],
     bet_lamports |-> bet_lamports, status |-> "Confirmed",
     confirmed_at_set |-> TRUE, claimed |-> FALSE, payout_amount |-> None]

ResolvedMarket(fee_bps, bet1, bet2, outcome) ==
    LET state == circuit_place_bet(bet2.encrypted_bet,
                     circuit_place_bet(bet1.encrypted_bet, circuit_init_market_state))
        payout == circuit_calculate_payout_pools(state, outcome)
    IN  [created |-> TRUE, authority |-> "u1", resolution_time |-> MaxTime,
         fee_bps |-> fee_bps, oracle_type |-> "Manual", status |-> "Resolved",
         outcome |-> Some(outcome), encrypted_state |-> state,
         state_nonce |-> PlaceBetOffset("u2"), mpc_initialized |-> TRUE,
         revealed_yes_pool |-> IF outcome THEN payout.winning_pool ELSE payout.losing_pool,
         revealed_no_pool |-> IF outcome THEN payout.losing_pool ELSE payout.winning_pool,
         revealed_total_pool |-> payout.total_pool, bet_count |-> 2]

InitPayout ==
    \E fee_bps \in PayoutFees, s1, s2 \in PayoutStakes, o1, o2, outcome \in BOOLEAN :
        LET bet1 == ConfirmedBet(0, o1, s1)
            bet2 == ConfirmedBet(1, o2, s2)
        IN  /\ fee_calc = NoFeeCalc
            /\ now = MaxTime
            /\ market = ResolvedMarket(fee_bps, bet1, bet2, outcome)
            /\ vault = [total_deposits |-> s1 + s2, total_withdrawals |-> 0]
            /\ vault_lamports = VaultRent + s1 + s2
            /\ bets = [u \in Users |-> IF u = "u1" THEN bet1 ELSE bet2]
            /\ comps = {}
            /\ offsets_used = InitOffsets
            /\ claim_log = [u \in Users |-> NoClaims]

NextPayout == ClaimPayout

SpecPayout == InitPayout /\ [][NextPayout]_vars

(***************************************************************************)
(* The fee of claim_payout on 64-bit totals: fee_bps as create_market      *)
(* accepts it, revealed_total_pool over the u64 range.                     *)
(***************************************************************************)
LimbSamples == {0, 1, 9, 9999, LimbBase - 1}
FeeBpsSamples == {0, 1, 500, MAX_FEE_BPS - 1, MAX_FEE_BPS, MAX_FEE_BPS + 1, BPS_DENOMINATOR}

U64Samples == {<<a, b, c, d>> : a \in LimbSamples, b \in LimbSamples,
                               c \in LimbSamples, d \in LimbSamples}

InitFee ==
    /\ fee_calc \in {[revealed_total_pool |-> t, fee_bps |-> f, fee |-> None] :
                        t \in U64Samples, f \in {b \in FeeBpsSamples : fee_bps_valid(b)}}
    /\ now = 0
    /\ market = NoMarket
    /\ vault = NoVault
    /\ vault_lamports = 0
    /\ bets = [u \in Users |-> NoBet]
    /\ comps = {}
    /\ offsets_used = {}
    /\ claim_log = [u \in Users |-> NoClaims]

\* let fee = (revealed_total_pool as u128 * fee_bps as u128 / 10000) as u64,
\* kept with the quotient before the cast.
ComputeFee ==
    /\ fee_calc.fee = None
    /\ fee_calc' = [fee_calc EXCEPT !.fee =
                       Some([quotient |-> FeeU128(fee_calc.revealed_total_pool,
                                                  fee_calc.fee_bps),
                             fee |-> FeeU64(fee_calc.revealed_total_pool,
                                            fee_calc.fee_bps)])]
    /\ UNCHANGED <<now, market, vault, vault_lamports, bets, comps, offsets_used,
                   claim_log>>

NextFee == ComputeFee

SpecFee == InitFee /\ [][NextFee]_vars

(***************************************************************************)
(* The initialisation of the aggregate, with the authority free to call    *)
(* init_market_state under a second computation offset: the market from    *)
(* its creation until bets are placed on it.                               *)
(***************************************************************************)
InitOffsetsRetry == {1, 2}

InitMarketStateRetry ==
    \E authority \in Users, computation_offset \in InitOffsetsRetry :
        init_market_state(authority, computation_offset)

NextInit ==
    \/ Tick
    \/ CreateMarket
    \/ InitMarketStateRetry
    \/ InitMarketStateCallback
    \/ CloseMarket
    \/ CancelMarket

SpecInit == Init /\ [][NextInit]_vars

(***************************************************************************)
(* The same initialisation with bets placed on the market as soon as a     *)
(* first init_market_state callback has landed.                            *)
(***************************************************************************)
NextReinit ==
    \/ Tick
    \/ CreateMarket
    \/ InitMarketStateRetry
    \/ InitMarketStateCallback
    \/ PlaceBet
    \/ PlaceBetCallback
    \/ CloseMarket
    \/ CancelMarket

SpecReinit == Init /\ [][NextReinit]_vars

(***************************************************************************)
(* Helpers of the properties                                               *)
(***************************************************************************)
RECURSIVE SumOver(_, _)
SumOver(S, f) ==
    IF S = {} THEN 0
    ELSE LET x == CHOOSE y \in S : TRUE IN f[x] + SumOver(S \ {x}, f)

Bettors == {u \in Users : bets[u].exists}

\* The bets whose place_bet callback has been applied.
LandedBets == {u \in Bettors : bets[u].confirmed_at_set}

AggregateMutating == {c \in comps : c.kind \in {"init_market_state", "place_bet"}}

ClaimedPayouts ==
    SumOver({u \in Bettors : bets[u].status = "Claimed"},
            [u \in Users |-> IF bets[u].exists /\ bets[u].payout_amount # None
                             THEN bets[u].payout_amount[1] ELSE 0])

EncryptedTotal(outcome) ==
    SumOver({u \in LandedBets : bets[u].encrypted_bet.outcome = outcome},
            [u \in Users |-> IF bets[u].exists THEN bets[u].encrypted_bet.amount ELSE 0])

(***************************************************************************)
(* C1: in every reachable state the vault's total_withdrawals is at most   *)
(* its total_deposits.                                                     *)
(***************************************************************************)
C1_WithdrawalsWithinDeposits ==
    market.created => vault.total_withdrawals <= vault.total_deposits

(***************************************************************************)
(* C2: conservation.  In a Resolved market the payouts of the records with *)
(* status Claimed sum to at most revealed_total_pool minus the fee,        *)
(* floor(revealed_total_pool * fee_bps / 10000).                           *)
(***************************************************************************)
C2_Conservation ==
    (market.created /\ market.status = "Resolved") =>
        ClaimedPayouts <= market.revealed_total_pool
                          - MulDiv(market.revealed_total_pool, market.fee_bps, 10000)

(***************************************************************************)
(* C3: in-flight guard.  At most one aggregate-mutating computation        *)
(* (init_market_state or place_bet) is outstanding for the market.         *)
(***************************************************************************)
C3_OneAggregateMutationInFlight == Cardinality(AggregateMutating) <= 1

(***************************************************************************)
(* C4: no lost update.  Whenever no aggregate-mutating computation is      *)
(* outstanding, the encrypted aggregate is the fold of the place_bet       *)
(* circuit over exactly the bets whose callback has landed.                *)
(***************************************************************************)
C4_NoLostUpdate ==
    (market.created /\ market.mpc_initialized /\ AggregateMutating = {}) =>
        market.encrypted_state = [yes_pool |-> EncryptedTotal(TRUE),
                                  no_pool |-> EncryptedTotal(FALSE),
                                  bet_count |-> Cardinality(LandedBets)]

(***************************************************************************)
(* C5: no double payout.  For every bet record at most one claim_payout    *)
(* succeeds, and once one has, every claim_payout on that record, with any *)
(* arguments, is rejected.                                                 *)
(***************************************************************************)
C5_NoDoublePayout ==
    \A u \in Users :
        /\ claim_log[u].payouts <= 1
        /\ claim_log[u].payouts = 1 =>
              \A claimed_outcome \in BOOLEAN, claimed_amount \in StakeChoices :
                  claim_payout_result(u, claimed_outcome, claimed_amount) # "Ok"

C5_Witness ==
    \E u \in Users : claim_log[u].payouts = 1 /\ bets[u].payout_amount[1] > 0

(***************************************************************************)
(* C6: the market status is monotonic.  Every step leaves it unchanged or  *)
(* follows Open -> Closed, Closed -> Resolving, Resolving -> Resolved,     *)
(* Open -> Cancelled or Closed -> Cancelled.                               *)
(***************************************************************************)
MarketEdges ==
    {<<"Open", "Closed">>, <<"Closed", "Resolving">>, <<"Resolving", "Resolved">>,
     <<"Open", "Cancelled">>, <<"Closed", "Cancelled">>}

C6_MarketStatusMonotonic ==
    [][market.created =>
          (market'.status = market.status
           \/ <<market.status, market'.status>> \in MarketEdges)]_vars

(***************************************************************************)
(* C7: Resolved and Cancelled are terminal.  Once the market is Resolved   *)
(* or Cancelled no step changes its status.                                *)
(***************************************************************************)
C7_TerminalStatus ==
    [][(market.created /\ market.status \in {"Resolved", "Cancelled"}) =>
          market'.status = market.status]_vars

(***************************************************************************)
(* C8: the bet status is monotonic.  Every step leaves a record's status   *)
(* unchanged or follows Pending -> Confirmed, Confirmed -> Claimed,        *)
(* Pending -> Refunded or Confirmed -> Refunded.                           *)
(***************************************************************************)
BetEdges ==
    {<<"Pending", "Confirmed">>, <<"Confirmed", "Claimed">>,
     <<"Pending", "Refunded">>, <<"Confirmed", "Refunded">>}

C8_BetStatusMonotonic ==
    [][\A u \in Users :
          bets[u].exists =>
              (bets'[u].status = bets[u].status
               \/ <<bets[u].status, bets'[u].status>> \in BetEdges)]_vars

C10_FeeBound ==
    fee_calc.fee # None =>
        LET total == fee_calc.revealed_total_pool
            computed == fee_calc.fee[1]
        IN  /\ fee_calc.fee_bps \in 0..1000
            /\ FitsU64(computed.quotient)
            /\ LeLimbs(computed.fee, DivLimbs(total, 10))
            /\ LeLimbs(computed.fee, total)

\* 2^64 - 1 at 1000 bps: the fee is 1844674407370955161 = 0x1999999999999999.
C10_Witness ==
    /\ fee_calc.revealed_total_pool = <<65535, 65535, 65535, 65535>>
    /\ fee_calc.fee_bps = 1000
    /\ fee_calc.fee # None
    /\ fee_calc.fee[1].fee = <<39321, 39321, 39321, 6553>>

(***************************************************************************)
(* C11: idempotent init.  Once an init_market_state callback has succeeded *)
(* (mpc_initialized is set) every init_market_state call is rejected with  *)
(* MpcAlreadyInitialized, and no init_market_state step is taken, so the   *)
(* status, the flag, the aggregate and its nonce are left as they are.     *)
(***************************************************************************)
C11_IdempotentInit ==
    /\ [](market.mpc_initialized =>
            \A authority \in Users :
                init_market_state_result(authority) = "MpcAlreadyInitialized")
    /\ [][market.mpc_initialized =>
            ~InitMarketState]_vars

C11_Witness ==
    /\ market.mpc_initialized
    /\ offsets_used # {}
    /\ init_market_state_result(market.authority) = "MpcAlreadyInitialized"
    /\ \E u \in Users : bets[u].exists /\ bets[u].status = "Confirmed"

(***************************************************************************)
(* C12: cancel then refund.  In a Cancelled market the claim_refund of a   *)
(* bettor on an unclaimed record (Pending or Confirmed) succeeds; it adds  *)
(* exactly the record's bet_lamports to total_withdrawals and leaves the   *)
(* record Refunded and claimed; every later claim_refund on the record is  *)
(* rejected; and claim_refund is rejected when the market is not Cancelled.*)
(***************************************************************************)
C12_CancelThenRefund ==
    /\ [](\A u \in Users :
            /\ (market.created /\ market.status = "Cancelled"
                    /\ bets[u].exists /\ ~bets[u].claimed) =>
                   /\ bets[u].status \in {"Pending", "Confirmed"}
                   /\ claim_refund_result(u) = "Ok"
            /\ claim_log[u].refunds <= 1
            /\ claim_log[u].refunds = 1 => claim_refund_result(u) # "Ok"
            /\ market.status # "Cancelled" => claim_refund_result(u) # "Ok")
    /\ [][\A u \in Users :
             claim_refund(u) =>
                 /\ vault'.total_withdrawals = vault.total_withdrawals + bets[u].bet_lamports
                 /\ bets'[u].status = "Refunded"
                 /\ bets'[u].claimed]_vars

C12_Witness ==
    /\ market.status = "Cancelled"
    /\ \A u \in Users :
          /\ bets[u].exists /\ bets[u].status = "Refunded" /\ bets[u].claimed
          /\ claim_log[u].refunds = 1
          /\ claim_refund_result(u) = "BetAlreadyClaimed"
    /\ vault.total_withdrawals = vault.total_deposits

(***************************************************************************)
(* C13: zero winning pool.  In a market that is Resolved with the winning  *)
(* side's revealed pool equal to 0, every claim_payout, whatever outcome   *)
(* it claims, pays 0, and the vault's total_withdrawals is 0.              *)
(***************************************************************************)
WinningPool ==
    IF market.outcome = Some(TRUE) THEN market.revealed_yes_pool
    ELSE market.revealed_no_pool

C13_ZeroWinningPool ==
    (market.created /\ market.status = "Resolved" /\ WinningPool = 0) =>
        /\ \A u \in Users, claimed_outcome \in BOOLEAN :
               bets[u].exists => PayoutAmount(claimed_outcome, bets[u].bet_lamports) = 0
        /\ \A u \in Users :
               (bets[u].exists /\ bets[u].status = "Claimed") =>
                   bets[u].payout_amount = Some(0)
        /\ vault.total_withdrawals = 0

(***************************************************************************)
(* C14: nonce pairing.  The encrypted aggregate and its nonce change only  *)
(* in the accepted callback of an init_market_state or place_bet           *)
(* computation, which stores the aggregate together with the nonce of its  *)
(* output, and only if the market's nonce at the callback is still the one *)
(* the computation was queued against: a callback queued against a stale   *)
(* nonce does not change the aggregate.                                    *)
(***************************************************************************)
C14_NoncePairing ==
    [][(market.created /\ (market'.encrypted_state # market.encrypted_state
                            \/ market'.state_nonce # market.state_nonce)) =>
          \E c \in AggregateMutating :
              /\ c \notin comps'
              /\ market'.state_nonce = OutputNonce(c)
              /\ c.state_nonce = market.state_nonce]_vars

(***************************************************************************)
(* C16: a signature failure is fail-closed.  In each of the three          *)
(* callbacks an output that does not verify gives MpcComputationFailed and *)
(* leaves every field of the market and of the bet records unchanged.      *)
(***************************************************************************)
C16_SignatureFailClosed ==
    /\ [](comps # {} => verify_output(FALSE) = "MpcComputationFailed")
    /\ [][\A c \in comps :
             (\/ init_market_state_callback(c, FALSE)
              \/ place_bet_callback(c, FALSE)
              \/ calculate_payout_pools_callback(c, FALSE)) =>
                 UNCHANGED <<market, bets>>]_vars

\* A bet and the resolution outstanding: either callback, delivered with an
\* output that does not verify, has left this state as it was.
C16_Witness ==
    /\ verify_output(FALSE) = "MpcComputationFailed"
    /\ \E c \in comps : c.kind = "place_bet" /\ bets[c.bettor].status = "Pending"
    /\ \E c \in comps : c.kind = "calculate_payout_pools" /\ market.status = "Resolving"

(***************************************************************************)
(* C17: place_bet preconditions.  place_bet succeeds only if the market is *)
(* Open, mpc_initialized is set, the time is strictly before               *)
(* resolution_time and MIN_BET_LAMPORTS <= bet_lamports <=                 *)
(* MAX_BET_LAMPORTS; otherwise it is rejected with MarketNotOpen,          *)
(* MpcNotInitialized, BettingPeriodEnded, BetAmountTooLow or               *)
(* BetAmountTooHigh, and no bet record is created and nothing deposited.   *)
(***************************************************************************)
BetLamportsSamples ==
    {ToU64(MIN_BET_LAMPORTS - 1), ToU64(MIN_BET_LAMPORTS), ToU64(VaultRent),
     <<4095, 54437, 232, 0>>, <<4096, 54437, 232, 0>>, <<4097, 54437, 232, 0>>,
     <<0, 0, 233, 0>>, <<0, 0, 0, 1>>, <<65535, 65535, 65535, 65535>>}

C17_Expected(stake) ==
    IF market.status # "Open" THEN "MarketNotOpen"
    ELSE IF ~market.mpc_initialized THEN "MpcNotInitialized"
    ELSE IF now >= market.resolution_time THEN "BettingPeriodEnded"
    ELSE IF stake # <<16960, 15, 0, 0>> /\ LeLimbs(stake, <<16960, 15, 0, 0>>)
         THEN "BetAmountTooLow"
    ELSE IF stake # <<4096, 54437, 232, 0>> /\ LeLimbs(<<4096, 54437, 232, 0>>, stake)
         THEN "BetAmountTooHigh"
    ELSE "Ok"

C17_PlaceBetPreconditions ==
    /\ [](\A b \in Users, stake \in BetLamportsSamples :
            (market.created /\ ~bets[b].exists) =>
                place_bet_result_u64(b, stake) = C17_Expected(stake))
    /\ [][\A b \in Users :
             ((bets'[b].exists /\ ~bets[b].exists)
              \/ vault'.total_deposits # vault.total_deposits) =>
                 \E stake \in StakeChoices :
                     /\ C17_Expected(ToU64(stake)) = "Ok"
                     /\ vault'.total_deposits = vault.total_deposits + stake]_vars

C17_Witness ==
    /\ market.status = "Open" /\ market.mpc_initialized /\ now < market.resolution_time
    /\ \E b, other \in Users :
          /\ ~bets[b].exists
          /\ place_bet_result_u64(b, <<4097, 54437, 232, 0>>) = "BetAmountTooHigh"
          /\ place_bet_result_u64(b, ToU64(MIN_BET_LAMPORTS - 1)) = "BetAmountTooLow"
          /\ place_bet_result_u64(b, <<4096, 54437, 232, 0>>) = "Ok"
          /\ bets[other].exists /\ vault.total_deposits = bets[other].bet_lamports

(***************************************************************************)
(* C18: claim_payout preconditions.  claim_payout succeeds only if the     *)
(* market is Resolved and the caller's bet record is not claimed, has      *)
(* status Confirmed and holds bet_lamports equal to claimed_amount; a      *)
(* Pending record is rejected with BetNotConfirmed and a mismatching       *)
(* amount with InvalidBetClaim, the record and the vault left unchanged.   *)
(***************************************************************************)
ClaimAmountSamples == StakeChoices \cup {2 * MIN_BET_LAMPORTS}

C18_ClaimPayoutPreconditions ==
    /\ [](\A u \in Users, claimed_outcome \in BOOLEAN, claimed_amount \in ClaimAmountSamples :
            LET result == claim_payout_result(u, claimed_outcome, claimed_amount)
                unclaimed == market.created /\ market.status = "Resolved"
                             /\ bets[u].exists /\ ~bets[u].claimed
            IN  /\ result = "Ok" =>
                       /\ unclaimed
                       /\ bets[u].status = "Confirmed"
                       /\ claimed_amount = bets[u].bet_lamports
                /\ (unclaimed /\ bets[u].status = "Pending") => result = "BetNotConfirmed"
                /\ (unclaimed /\ bets[u].status = "Confirmed"
                        /\ claimed_amount # bets[u].bet_lamports) => result = "InvalidBetClaim")
    /\ [][\A u \in Users :
             (bets[u].exists /\ bets'[u].status = "Claimed" /\ bets[u].status # "Claimed") =>
                 /\ market.status = "Resolved"
                 /\ bets[u].status = "Confirmed" /\ ~bets[u].claimed
                 /\ claim_log'[u].claimed_amount = Some(bets[u].bet_lamports)]_vars

C18_Witness ==
    /\ market.status = "Resolved"
    /\ \E u, v \in Users :
          /\ bets[u].exists /\ bets[u].status = "Pending" /\ ~bets[u].claimed
          /\ claim_payout_result(u, TRUE, bets[u].bet_lamports) = "BetNotConfirmed"
          /\ bets[v].exists /\ bets[v].status = "Confirmed" /\ ~bets[v].claimed
          /\ claim_payout_result(v, TRUE, MIN_BET_LAMPORTS - 1) = "InvalidBetClaim"
          /\ claim_payout_result(v, TRUE, bets[v].bet_lamports) = "Ok"

(***************************************************************************)
(* C19: cancel_market preconditions.  cancel_market succeeds only when the *)
(* caller is the market's creator and the status is Open or Closed; in a   *)
(* Resolving, Resolved or Cancelled market it is rejected and the status   *)
(* stays as it is.                                                         *)
(***************************************************************************)
C19_CancelPreconditions ==
    [][\A authority \in Users :
          cancel_market(authority) =>
              /\ authority = market.authority
              /\ market.status \in {"Open", "Closed"}]_vars

(***************************************************************************)
(* C20: resolve_market preconditions.  resolve_market succeeds only if the *)
(* market is Closed, mpc_initialized is set and the caller is the market's *)
(* creator, whatever the oracle type; on success the status becomes        *)
(* Resolving and exactly one calculate_payout_pools computation is queued; *)
(* in any other status it is rejected with MarketNotClosed, so at most one *)
(* such computation is ever queued for the market.                         *)
(***************************************************************************)
PayoutSplits == {c \in comps : c.kind = "calculate_payout_pools"}

C20_Rejections ==
    \A resolver \in Users :
        /\ (resolve_market_result(resolver) = "Ok") =>
               (market.status = "Closed" /\ market.mpc_initialized
                    /\ resolver = market.authority)
        /\ (market.created /\ market.status # "Closed") =>
               (resolve_market_result(resolver) = "MarketNotClosed")

C20_EveryOracleType ==
    \A oracle_type \in {"Manual", "Switchboard", "Jury"}, a, r \in Users :
        resolver_authorized(oracle_type, a, r) <=> (a = r)

\* Before a resolve_market none was queued, and after one no other can be.
C20_AtMostOne ==
    /\ Cardinality(PayoutSplits) <= 1
    /\ (market.status \in {"Open", "Closed"}) =>
           (PayoutSplits = {} /\ market.outcome = None)

C20_ResolvePreconditions ==
    /\ [](C20_Rejections /\ C20_EveryOracleType /\ C20_AtMostOne)
    /\ [][\A resolver \in Users, outcome \in BOOLEAN :
             resolve_market(resolver, outcome) =>
                 /\ market.status = "Closed" /\ market'.status = "Resolving"
                 /\ PayoutSplits = {}
                 /\ \E c \in comps' : /\ comps' = comps \cup {c}
                                       /\ c \notin comps
                                       /\ c.kind = "calculate_payout_pools"]_vars
    /\ [][(market.status \notin {"Open", "Closed"}) =>
             (market'.status \notin {"Open", "Closed"})]_vars

C20_Witness ==
    /\ market.status = "Resolving"
    /\ Cardinality(PayoutSplits) = 1
    /\ resolve_market_result(market.authority) = "MarketNotClosed"
    /\ \E u \in Users : bets[u].exists /\ bets[u].status = "Confirmed"

(***************************************************************************)
(* C21: close_market succeeds exactly when the market is Open and the      *)
(* caller is the creator or the time is at or after resolution_time; on    *)
(* success the status becomes Closed; and from then on the market is never *)
(* Open again and every place_bet on it is rejected.                       *)
(***************************************************************************)
C21_Exactly ==
    \A signer \in Users :
        (close_market_result(signer) = "Ok") <=>
            (market.created /\ market.status = "Open"
                 /\ (signer = market.authority \/ now >= market.resolution_time))

C21_NoBetsOnceClosed ==
    (market.created /\ market.status # "Open") =>
        \A bettor \in Users, stake \in BetLamportsSamples :
            place_bet_result_u64(bettor, stake) # "Ok"

C21_CloseMarket ==
    /\ [](C21_Exactly /\ C21_NoBetsOnceClosed)
    /\ [][(\E signer \in Users : close_market(signer)) =>
              (market.status = "Open" /\ market'.status = "Closed")]_vars
    /\ [][(market.created /\ market.status # "Open") => (market'.status # "Open")]_vars

\* Closed after the deadline, where anyone could close it; a bettor without
\* a record is turned away.
C21_Witness ==
    /\ market.created /\ market.status = "Closed"
    /\ now >= market.resolution_time
    /\ \E b, other \in Users :
          /\ b # market.authority
          /\ ~bets[b].exists /\ bets[other].exists
          /\ place_bet_result(b, MIN_BET_LAMPORTS) = "MarketNotOpen"

(***************************************************************************)
(* C22: create_market succeeds only if the question is at most 200 long,   *)
(* resolution_time is strictly after the current time and fee_bps <= 1000; *)
(* otherwise it is rejected with InvalidInput and no market is created.    *)
(* On success the market is Open with no outcome, a zeroed aggregate that  *)
(* is not initialized (flag false, nonce 0), revealed totals 0 and         *)
(* bet_count 0, and the vault has total_deposits = total_withdrawals = 0.  *)
(***************************************************************************)
QuestionLenSamples == {0, 200, 201}
FeeBpsInputs == {0, 500, 1000, 1001}

C22_Validation ==
    ~market.created =>
        \A question_len \in QuestionLenSamples, resolution_time \in 0..(MaxTime + 1),
           fee_bps \in FeeBpsInputs :
            create_market_result(question_len, resolution_time, fee_bps) =
                (IF question_len <= 200 /\ resolution_time > now /\ fee_bps <= 1000
                 THEN "Ok" ELSE "InvalidInput")

C22_Created ==
    /\ market'.status = "Open" /\ market'.outcome = None
    /\ market'.encrypted_state = [yes_pool |-> 0, no_pool |-> 0, bet_count |-> 0]
    /\ ~market'.mpc_initialized /\ market'.state_nonce = 0
    /\ market'.revealed_yes_pool = 0 /\ market'.revealed_no_pool = 0
    /\ market'.revealed_total_pool = 0 /\ market'.bet_count = 0
    /\ vault'.total_deposits = 0 /\ vault'.total_withdrawals = 0
    /\ market'.resolution_time > now /\ market'.fee_bps <= 1000

C22_CreateMarket ==
    /\ [](C22_Validation)
    /\ [][(market'.created /\ ~market.created) => C22_Created]_vars
    /\ [][(~market'.created) => UNCHANGED <<market, vault, vault_lamports, bets>>]_vars

C22_Witness ==
    /\ market.created /\ market.status = "Open" /\ market.outcome = None
    /\ market.fee_bps = 500 /\ market.resolution_time > now
    /\ ~market.mpc_initialized /\ market.state_nonce = 0
    /\ vault.total_deposits = 0 /\ vault.total_withdrawals = 0
    /\ offsets_used = {} /\ comps = {}

(***************************************************************************)
(* C23: one bet record per bettor.  Once a place_bet of a bettor has       *)
(* succeeded, every later place_bet of that bettor is rejected: no         *)
(* place_bet step of the bettor is taken again, so the record, the vault   *)
(* and the market are left as they are by it, and the record stays the     *)
(* record of the first bet.                                                *)
(***************************************************************************)
C23_Rejected ==
    \A b \in Users :
        bets[b].exists =>
            \A stake \in BetLamportsSamples :
                place_bet_result_u64(b, stake) = "AccountAlreadyInUse"

C23_OneBetRecord ==
    /\ [](C23_Rejected)
    /\ [][\A b \in Users :
             bets[b].exists =>
                 /\ bets'[b].exists
                 /\ bets'[b].bet_index = bets[b].bet_index
                 /\ bets'[b].encrypted_bet = bets[b].encrypted_bet
                 /\ bets'[b].bet_lamports = bets[b].bet_lamports
                 /\ \A encrypted_outcome \in BOOLEAN, bet_lamports \in StakeChoices :
                        \A encrypted_amount \in EncAmountChoices(bet_lamports) :
                            ~place_bet(b, encrypted_outcome, encrypted_amount,
                                       bet_lamports)]_vars

\* The bettor's first bet is confirmed and the market still takes bets.
C23_Witness ==
    /\ market.status = "Open" /\ market.mpc_initialized /\ now < market.resolution_time
    /\ \E b, other \in Users :
          /\ bets[b].exists /\ bets[b].status = "Confirmed"
          /\ place_bet_result(b, MIN_BET_LAMPORTS) = "AccountAlreadyInUse"
          /\ place_bet_result(other, MIN_BET_LAMPORTS) = "Ok"

(***************************************************************************)
(* C24: rejected calls are atomic.  A step that changes the market, the    *)
(* vault, its balance or a bet record is the step of an entry point whose  *)
(* checks all passed, or of a callback whose output verified: a call that  *)
(* returns an error leaves no deposit, withdrawal, status change or record *)
(* behind.                                                                 *)
(***************************************************************************)
Accounts == <<market, vault, vault_lamports, bets>>

AcceptedCall ==
    \/ \E authority \in Creators, question_len \in QuestionLens,
          resolution_time \in DeadlineChoices, oracle_type \in OracleBytes,
          fee_bps \in FeeChoices :
           /\ create_market_result(question_len, resolution_time, fee_bps) = "Ok"
           /\ create_market(authority, question_len, resolution_time, oracle_type, fee_bps)
    \/ \E bettor \in Users, encrypted_outcome \in BOOLEAN, bet_lamports \in StakeChoices :
           \E encrypted_amount \in EncAmountChoices(bet_lamports) :
               /\ place_bet_result(bettor, bet_lamports) = "Ok"
               /\ place_bet(bettor, encrypted_outcome, encrypted_amount, bet_lamports)
    \/ \E signer \in Users :
           close_market_result(signer) = "Ok" /\ close_market(signer)
    \/ \E resolver \in Users, outcome \in BOOLEAN :
           resolve_market_result(resolver) = "Ok" /\ resolve_market(resolver, outcome)
    \/ \E authority \in Users :
           cancel_market_result(authority) = "Ok" /\ cancel_market(authority)
    \/ \E bettor \in Users, claimed_outcome \in BOOLEAN :
           \E claimed_amount \in ClaimAmountChoices(bettor) :
               /\ claim_payout_result(bettor, claimed_outcome, claimed_amount) = "Ok"
               /\ claim_payout(bettor, claimed_outcome, claimed_amount)
    \/ \E bettor \in Users :
           claim_refund_result(bettor) = "Ok" /\ claim_refund(bettor)

AcceptedCallback ==
    \E c \in comps :
        /\ verify_output(TRUE) = "Ok"
        /\ \/ init_market_state_callback(c, TRUE)
           \/ place_bet_callback(c, TRUE)
           \/ calculate_payout_pools_callback(c, TRUE)

C25_ResolveAgain ==
    (market.created /\ market.status = "Resolving") =>
        resolve_market_result(market.authority) = "Ok"

(***************************************************************************)
(* C26: the market's outcome is present if and only if its status is       *)
(* Resolved; while the status is not Resolved revealed_yes_pool,           *)
(* revealed_no_pool and revealed_total_pool are 0; and once stored at the  *)
(* resolution, the outcome and the revealed totals never change.           *)
(***************************************************************************)
Revealed == <<market.outcome, market.revealed_yes_pool, market.revealed_no_pool,
              market.revealed_total_pool>>

C26_OutcomeIffResolved ==
    market.created =>
        /\ (market.outcome # None) <=> (market.status = "Resolved")
        /\ (market.status # "Resolved") =>
               (/\ market.revealed_yes_pool = 0
                /\ market.revealed_no_pool = 0
                /\ market.revealed_total_pool = 0)

C26_OutcomeAndTotals ==
    /\ [](C26_OutcomeIffResolved)
    /\ [][(market.created /\ market.status = "Resolved") => (Revealed' = Revealed)]_vars
    /\ [][(market.created /\ Revealed' # Revealed) =>
              (market.status # "Resolved" /\ market'.status = "Resolved")]_vars

\* Resolved with totals stored, and a payout claimed since.
C26_Witness ==
    /\ market.status = "Resolved" /\ market.outcome = Some(FALSE)
    /\ market.revealed_no_pool > 0 /\ market.revealed_yes_pool > 0
    /\ market.revealed_total_pool = market.revealed_yes_pool + market.revealed_no_pool
    /\ \E u \in Users : bets[u].exists /\ bets[u].status = "Claimed"

(***************************************************************************)
(* C27: no second init_market_state while one is outstanding.  At most one *)
(* init_market_state computation is queued and not yet called back.        *)
(***************************************************************************)
InitsOutstanding == {c \in comps : c.kind = "init_market_state"}

C27_OneInitOutstanding == Cardinality(InitsOutstanding) <= 1

(***************************************************************************)
(* C28: plaintext stake accounting.  A record's bet_lamports never changes *)
(* after place_bet has created it; the vault's total_deposits is the sum   *)
(* of bet_lamports over the market's bet records in every reachable state; *)
(* and total_deposits changes only when a record is created, by exactly    *)
(* that record's bet_lamports.                                             *)
(***************************************************************************)
Stakes == SumOver(Bettors, [u \in Users |-> IF bets[u].exists THEN bets[u].bet_lamports ELSE 0])

C28_DepositsAreStakes == vault.total_deposits = Stakes

C28_StakeAccounting ==
    /\ [](C28_DepositsAreStakes)
    /\ [][\A u \in Users :
             bets[u].exists =>
                 (bets'[u].exists /\ bets'[u].bet_lamports = bets[u].bet_lamports)]_vars
    /\ [][(vault'.total_deposits # vault.total_deposits) =>
              \E b \in Users :
                  /\ ~bets[b].exists /\ bets'[b].exists
                  /\ \A u \in Users \ {b} : bets'[u] = bets[u]
                  /\ vault'.total_deposits =
                         vault.total_deposits + bets'[b].bet_lamports]_vars

\* Two different stakes deposited, one of them refunded since.
C28_Witness ==
    /\ vault.total_deposits = MIN_BET_LAMPORTS + VaultRent
    /\ \E u, v \in Users :
          /\ bets[u].exists /\ bets[u].bet_lamports = MIN_BET_LAMPORTS
          /\ bets[u].status = "Refunded"
          /\ bets[v].exists /\ bets[v].bet_lamports = VaultRent

(***************************************************************************)
(* C29: payout-split result mapping.  resolve_market queues the circuit on *)
(* the market's aggregate and the outcome it is given, and for both        *)
(* outcomes the accepted callback stores revealed_yes_pool = the yes total *)
(* of that aggregate, revealed_no_pool = its no total, revealed_total_pool *)
(* = yes + no, and outcome = the outcome given to resolve_market.          *)
(***************************************************************************)
C29_PayoutSplitMapping ==
    /\ [][\A resolver \in Users, outcome \in BOOLEAN :
             resolve_market(resolver, outcome) =>
                 \E c \in comps' \ comps :
                     /\ c.kind = "calculate_payout_pools"
                     /\ c.outcome = outcome
                     /\ c.state = market.encrypted_state]_vars
    /\ [][\A c \in comps :
             calculate_payout_pools_callback(c, TRUE) =>
                 /\ market'.revealed_yes_pool = c.state.yes_pool
                 /\ market'.revealed_no_pool = c.state.no_pool
                 /\ market'.revealed_total_pool = c.state.yes_pool + c.state.no_pool
                 /\ market'.outcome = Some(c.outcome)]_vars

\* NO wins, with different totals on the two sides.
C29_Witness ==
    /\ market.status = "Resolved" /\ market.outcome = Some(FALSE)
    /\ market.revealed_yes_pool = VaultRent
    /\ market.revealed_no_pool = MIN_BET_LAMPORTS
    /\ market.revealed_total_pool = VaultRent + MIN_BET_LAMPORTS
    /\ market.encrypted_state.yes_pool = VaultRent
    /\ market.encrypted_state.no_pool = MIN_BET_LAMPORTS

(***************************************************************************)
(* C30: bet indices are sequential.  Two distinct bet records of the       *)
(* market have distinct bet_index values, and the indices of the records   *)
(* are 0 .. k-1 when k bets have been placed, whether or not a place_bet   *)
(* callback has landed in between.                                         *)
(***************************************************************************)
C30_SequentialBetIndex ==
    /\ \A u, v \in Bettors : (u # v) => (bets[u].bet_index # bets[v].bet_index)
    /\ {bets[u].bet_index : u \in Bettors} = 0..(Cardinality(Bettors) - 1)

(***************************************************************************)
(* C31: a losing bet is never paid.  For every bet record whose encrypted  *)
(* outcome differs from the market's resolved outcome, a claim_payout that *)
(* succeeded recorded a payout of 0, and none with a nonzero payout can    *)
(* succeed, whatever claimed_outcome the caller passes.                    *)
(***************************************************************************)
Losers ==
    {u \in Bettors : market.outcome # None /\ bets[u].encrypted_bet.outcome # market.outcome[1]}

C31_LoserGetsNothing ==
    (market.created /\ market.status = "Resolved") =>
        \A u \in Losers :
            /\ bets[u].status = "Claimed" => bets[u].payout_amount = Some(0)
            /\ \A claimed_outcome \in BOOLEAN :
                   claim_payout_result(u, claimed_outcome, bets[u].bet_lamports) = "Ok" =>
                       PayoutAmount(claimed_outcome, bets[u].bet_lamports) = 0

(***************************************************************************)
(* C32: in every Resolved market revealed_total_pool is the sum of the     *)
(* bet_lamports of the records with status Confirmed or Claimed, and for   *)
(* every record the amount inside the ciphertext is the bet_lamports       *)
(* deposited.                                                              *)
(***************************************************************************)
EligibleStakes ==
    SumOver({u \in Bettors : bets[u].status \in {"Confirmed", "Claimed"}},
            [u \in Users |-> IF bets[u].exists THEN bets[u].bet_lamports ELSE 0])

C32_RevealedTotalIsStakes ==
    /\ \A u \in Bettors : bets[u].encrypted_bet.amount = bets[u].bet_lamports
    /\ (market.created /\ market.status = "Resolved") =>
           market.revealed_total_pool = EligibleStakes

(***************************************************************************)
(* C33: once resolve_market has succeeded (the status is Resolving or      *)
(* Resolved) no step changes the market's encrypted aggregate, its nonce   *)
(* or its bet_count, and no bet record goes from Pending to Confirmed.     *)
(***************************************************************************)
C33_NoBetLandsAfterResolve ==
    [][(market.created /\ market.status \in {"Resolving", "Resolved"}) =>
          /\ market'.encrypted_state = market.encrypted_state
          /\ market'.state_nonce = market.state_nonce
          /\ market'.bet_count = market.bet_count
          /\ \A u \in Bettors :
                 ~(bets[u].status = "Pending" /\ bets'[u].status = "Confirmed")]_vars

(***************************************************************************)
(* C34: one withdrawal per bet record.  Over its lifetime a record is the  *)
(* subject of at most one successful claim_payout or claim_refund, never   *)
(* of both, under any interleaving of cancel_market, resolve_market, the   *)
(* callbacks, claims and refunds; once one has succeeded, both entry       *)
(* points reject the record.                                               *)
(***************************************************************************)
C34_OneWithdrawalPerRecord ==
    \A u \in Users :
        /\ claim_log[u].payouts + claim_log[u].refunds <= 1
        /\ (claim_log[u].payouts + claim_log[u].refunds = 1) =>
               /\ bets[u].claimed
               /\ claim_refund_result(u) # "Ok"
               /\ \A claimed_outcome \in BOOLEAN :
                      claim_payout_result(u, claimed_outcome, bets[u].bet_lamports) # "Ok"

\* Cancelled while Resolving, one bettor refunded, then the payout callback
\* landed: the refunded record is turned away by claim_payout, the other
\* bettor has claimed a payout.
C34_Witness ==
    /\ market.status = "Resolved"
    /\ \E u, v \in Users :
          /\ claim_log[u].refunds = 1 /\ bets[u].status = "Refunded"
          /\ claim_payout_result(u, TRUE, bets[u].bet_lamports) = "BetAlreadyClaimed"
          /\ claim_log[v].payouts = 1 /\ bets[v].status = "Claimed"

(***************************************************************************)
(* C35: for every bet record, in every reachable state, claimed is true if *)
(* and only if the status is Claimed or Refunded, and if and only if       *)
(* payout_amount is present.                                               *)
(***************************************************************************)
C35_ClaimedFlagAgrees ==
    \A u \in Bettors :
        /\ bets[u].claimed <=> (bets[u].status \in {"Claimed", "Refunded"})
        /\ bets[u].claimed <=> (bets[u].payout_amount # None)

(***************************************************************************)
(* C36: once a place_bet callback has been applied to the market no        *)
(* init_market_state callback is applied to it, and an aggregate that      *)
(* holds a bet is never put back to the zero aggregate, also when two      *)
(* init_market_state computations were queued before the first landed.     *)
(***************************************************************************)
C36_NoInitAfterBet ==
    [][(market.created /\ market.bet_count > 0) =>
          /\ InitsOutstanding \subseteq comps'
          /\ (market.encrypted_state # circuit_init_market_state) =>
                 (market'.encrypted_state # circuit_init_market_state)]_vars

(***************************************************************************)
(* C37: cancelled-market solvency.  Whenever the market is Cancelled, the  *)
(* vault's total_deposits - total_withdrawals is at least the sum of the   *)
(* bet_lamports of the records with claimed = false, and claim_refund      *)
(* succeeds for each of them.                                              *)
(***************************************************************************)
UnclaimedStakes ==
    SumOver({u \in Bettors : ~bets[u].claimed},
            [u \in Users |-> IF bets[u].exists THEN bets[u].bet_lamports ELSE 0])

C37_CancelledSolvency ==
    (market.created /\ market.status = "Cancelled") =>
        /\ vault.total_deposits - vault.total_withdrawals >= UnclaimedStakes
        /\ vault_lamports - VaultRent >= UnclaimedStakes
        /\ \A u \in Bettors : ~bets[u].claimed => claim_refund_result(u) = "Ok"

\* One bettor refunded, the other still to be: what is left covers the stake.
C37_Witness ==
    /\ market.status = "Cancelled"
    /\ \E u, v \in Users :
          /\ bets[u].exists /\ bets[u].claimed /\ bets[u].status = "Refunded"
          /\ bets[v].exists /\ ~bets[v].claimed /\ bets[v].bet_lamports = VaultRent
          /\ vault.total_deposits - vault.total_withdrawals = VaultRent
          /\ claim_refund_result(v) = "Ok"

(***************************************************************************)
(* C38: liveness under fair callback delivery.  If the callback of every   *)
(* queued computation is eventually delivered with an output that          *)
(* verifies, a market that is Resolving eventually is Resolved, and a bet  *)
(* record that is Pending eventually is not.                               *)
(***************************************************************************)
BetPending(u) == bets[u].exists /\ bets[u].status = "Pending"

C38_Liveness ==
    /\ (market.created /\ market.status = "Resolving") ~> (market.status = "Resolved")
    /\ \A u \in Users : BetPending(u) ~> ~BetPending(u)

\* Resolved with every computation answered and no record Pending.
C38_Witness ==
    /\ market.status = "Resolved" /\ comps = {}
    /\ \A u \in Users : bets[u].exists /\ bets[u].status = "Confirmed"

(***************************************************************************)
(* C39: for every claim_payout that succeeds, the quotient                 *)
(* claimed_amount * (revealed_total_pool - fee) / winning_pool is at most  *)
(* revealed_total_pool - fee, and so fits 64 bits.                         *)
(***************************************************************************)
PayoutPool ==
    SaturatingSub(market.revealed_total_pool, Fee(market.revealed_total_pool, market.fee_bps))

C39_QuotientWithinPool ==
    (market.created /\ market.status = "Resolved") =>
        \A u \in Bettors, claimed_outcome \in BOOLEAN :
            claim_payout_result(u, claimed_outcome, bets[u].bet_lamports) = "Ok" =>
                PayoutAmount(claimed_outcome, bets[u].bet_lamports) <= PayoutPool

(***************************************************************************)
(* C40: in every reachable state the market's bet_count is the number of   *)
(* place_bet callbacks applied to it, is at most the number of its bet     *)
(* records, and equals the bet_count inside the encrypted aggregate        *)
(* whenever no computation is outstanding.                                 *)
(***************************************************************************)
C40_BetCount ==
    market.created =>
        /\ market.bet_count = Cardinality(LandedBets)
        /\ market.bet_count <= Cardinality(Bettors)
        /\ (comps = {} /\ market.mpc_initialized) =>
               market.bet_count = market.encrypted_state.bet_count

=============================================================================
